---------------------------- MODULE Spec2Model ----------------------------
(***************************************************************************)
(* Food_Share_101: the surplus-food coordination canister.                 *)
(*                                                                         *)
(* lib.rs holds three revisions of the same service, one after the other:  *)
(*   revision A (lines 1-542)    create_* handlers over StableVec          *)
(*                               registries, authorised by a call to the   *)
(*                               governance canister;                      *)
(*   revision B (lines 546-874)  create_* / assign_driver_to_surplus_post  *)
(*                               / record_surplus_delivery over            *)
(*                               RwLock<Vec<_>> registries, authorised by  *)
(*                               comparing the caller with the canister id;*)
(*   revision C (lines 875-1094) add_* / assign / record over an async     *)
(*                               RwLock.                                   *)
(* Revision A declares its registries and ID_COUNTER at lines 116-135,     *)
(* revisions B and C share those of lines 856-874 (variables with the      *)
(* suffix _b); each revision has its own specifications.                   *)
(*                                                                         *)
(* Execution model.  The handlers are `#[update] async fn`s of a canister: *)
(* a message runs without preemption until it awaits an inter-canister     *)
(* call, and other messages run while it waits.  In revision A the only    *)
(* await is the governance call inside is_governance_accepted (line 539);  *)
(* everything after it in a handler is one uninterrupted step.  A call is  *)
(* therefore modelled by an entry step (up to the await, or to the end     *)
(* when `sender != subject && ...` short-circuits) and a resume step (the  *)
(* oracle's answer arrives and the rest of the handler runs).  Nothing     *)
(* reads the arguments of a suspended call before it resumes, so the       *)
(* record of a suspended call holds its operation and the number of        *)
(* assignments stored at its entry, and its arguments are drawn when it    *)
(* resumes.                                                                *)
(*                                                                         *)
(* Strings are sequences of characters, so that is_empty, contains('@'),   *)
(* len() and chars().all(is_numeric) are computed as the code computes     *)
(* them.  The created_at / delivered_at timestamps (time()) are read by no *)
(* handler and are left out of the records.                                *)
(***************************************************************************)
EXTENDS Integers, Sequences, FiniteSets, Bags, TLC

VARIABLES
    DONORS,           \* lib.rs:117  StableVec<DonorProfile>
    RECEIVERS,        \* lib.rs:118  StableVec<ReceiverProfile>
    DRIVERS,          \* lib.rs:119  StableVec<DriverProfile>
    SURPLUS_POSTS,    \* lib.rs:120  StableVec<SurplusPost>
    ASSIGNMENTS,      \* lib.rs:121  StableVec<Assignment>
    SURPLUS_RECORDS,  \* lib.rs:122  StableVec<SurplusRecord>
    ID_COUNTER,       \* lib.rs:133  RefCell<u64>
    inflight,         \* bag of the calls suspended at the governance await (line 539)
    reply,            \* the reply of the call that has just ended, NoReply once sent
    delivery_calls,   \* history: the posts whose assigned driver's create_surplus_record has ended
    DONORS_b,          \* lib.rs:859  RwLock<Vec<DonorProfile>>
    RECEIVERS_b,       \* lib.rs:862
    DRIVERS_b,         \* lib.rs:865
    SURPLUS_POSTS_b,   \* lib.rs:868
    ASSIGNMENTS_b,     \* lib.rs:871
    SURPLUS_RECORDS_b, \* lib.rs:874
    ID_COUNTER_b,      \* lib.rs:856  RefCell<u32>
    reply_b,           \* revision B's reply to the call that has just ended
    blocked,           \* bag of the calls suspended at a write().await (lines 979-1087)
    FOOD_REQUESTS,     \* the Vec<FoodRequest> the food-request handlers lock
    FOOD_RECORDS,      \* the Vec<FoodRecord> record_food_delivery pushes to
    MESSAGES           \* the Vec<Message> the messaging handlers lock

registries == <<DONORS, RECEIVERS, DRIVERS, SURPLUS_POSTS, ASSIGNMENTS, SURPLUS_RECORDS>>

store == <<DONORS, RECEIVERS, DRIVERS, SURPLUS_POSTS, ASSIGNMENTS, SURPLUS_RECORDS, ID_COUNTER>>

rev_a == <<DONORS, RECEIVERS, DRIVERS, SURPLUS_POSTS, ASSIGNMENTS, SURPLUS_RECORDS,
           ID_COUNTER, inflight, reply, delivery_calls>>

store_b == <<DONORS_b, RECEIVERS_b, DRIVERS_b, SURPLUS_POSTS_b, ASSIGNMENTS_b,
             SURPLUS_RECORDS_b, ID_COUNTER_b>>

rev_b == <<DONORS_b, RECEIVERS_b, DRIVERS_b, SURPLUS_POSTS_b, ASSIGNMENTS_b,
           SURPLUS_RECORDS_b, ID_COUNTER_b, reply_b, blocked>>

\* The registries of the food-request and messaging handlers.
rev_d == <<FOOD_REQUESTS, FOOD_RECORDS, MESSAGES>>

vars == <<rev_a, rev_b, rev_d>>

(***************************************************************************)
(* Bounds of the model.                                                    *)
(***************************************************************************)
\* Profiles and posts are created only while ID_COUNTER < MaxId.  (The
\* assignments and delivery records are bounded by the posts.)
MaxId == 2

\* At most this many calls wait for the governance oracle at once.
MaxInFlight == 2

\* Revision B, whose record_surplus_delivery frees the post for another
\* assignment, stores at most this many assignments.
MaxAssign == 2

\* Revision C issues ids up to this one (its populated store holds 1 to 6).
MaxIdC == 8

\* At most this many calls of revision C are suspended at a write lock.
MaxBlocked == 2

(***************************************************************************)
(* Values.                                                                 *)
(***************************************************************************)
\* Principal::anonymous(), in the id space the code compares principals in
\* (sender != driver_id, donor.id == donor_id).
Anonymous == 0

\* The characters the input strings are built from, with their UTF-8 width
\* (String::len counts bytes) and char::is_numeric.  "NUM2" stands for a
\* numeric character outside ASCII, two bytes wide (such as U+0663).
utf8_len(c) == IF c = "NUM2" THEN 2 ELSE 1

is_numeric(c) == c \in {"0", "1", "2", "3", "4", "5", "6", "7", "8", "9", "NUM2"}

RECURSIVE len(_)
len(s) == IF s = <<>> THEN 0 ELSE utf8_len(Head(s)) + len(Tail(s))

is_empty(s) == len(s) = 0

contains(s, c) == \E i \in DOMAIN s : s[i] = c

all_numeric(s) == \A i \in DOMAIN s : is_numeric(s[i])

Ann == <<"A", "n", "n">>

Phone == <<"5", "5", "5", "1", "2", "3", "4", "5", "6", "7">>

Road == <<"1", "R", "d">>

ann_x == <<"a", "n", "n", "@", "x">>

bo_x == <<"b", "o", "@", "x">>

cy_x == <<"c", "y", "@", "x">>

\* Three digits, too short for a phone number.
Short == <<"5", "5", "5">>

\* Five numeric characters of two bytes each: ten bytes.
Wide == <<"NUM2", "NUM2", "NUM2", "NUM2", "NUM2">>

no_at == <<"a", "n", "n">>

\* The (name, phone_number, email, address) requests tried: two that pass
\* every check, the second with a phone number of ten bytes in five
\* characters; one that has no name, no '@' and a short phone number; one
\* that has no '@' and a short phone number; one that has the email of the
\* first and a short phone number.
ProfileInputs ==
    {<<Ann, Phone, ann_x, Road>>,
     <<Ann, Wide, bo_x, Road>>,
     <<<<>>, Short, no_at, Road>>,
     <<Ann, Short, no_at, Road>>,
     <<Ann, Short, ann_x, Road>>}

BusinessTypes == {"restaurant"}

FoodTypes == {"vegetables"}

Instructions == {<<"c", "o", "l", "d">>}

\* The (quantity_kg, best_before_date) pairs tried.
PostInputs == {<<10, 1>>, <<0, 1>>, <<10, 0>>}

\* Option<u8>: <<>> is None, <<r>> is Some(r).
Ratings == {<<5>>}

ids(registry) == {registry[i].id : i \in DOMAIN registry}

\* An id the counter has not issued.
MissingId == ID_COUNTER + 1

\* request::caller() of a caller that is no stored entity: a principal that
\* equals no id.
Stranger == -1

\* The ids a caller passes for an entity of a registry: the ids in it, 0 (a
\* missing field) and an id nothing has.
IdArgs(registry) == ids(registry) \cup {0, MissingId}

\* The ids of a registry, or an id nothing has when the registry is empty.
Good(registry) == IF registry = <<>> THEN {MissingId} ELSE ids(registry)

\* The (receiver_id, surplus_post_id, driver_id) requests tried: the ids of
\* stored entities, and the requests with one of the three 0 or unknown.
AssignmentInputs ==
    (IdArgs(RECEIVERS) \X Good(SURPLUS_POSTS) \X Good(DRIVERS))
        \cup (Good(RECEIVERS) \X IdArgs(SURPLUS_POSTS) \X Good(DRIVERS))
        \cup (Good(RECEIVERS) \X Good(SURPLUS_POSTS) \X IdArgs(DRIVERS))

\* The (surplus_post_id, driver_id) requests tried, likewise.
RecordInputs ==
    (IdArgs(SURPLUS_POSTS) \X Good(DRIVERS)) \cup (Good(SURPLUS_POSTS) \X IdArgs(DRIVERS))

\* The governance call's outcomes: Ok(true), Ok(false), Err(_).
Responses == {"true", "false", "reject"}

(***************************************************************************)
(* Calls and replies.                                                      *)
(***************************************************************************)
NoCall ==
    [op |-> "none", sender |-> Anonymous,
     name |-> <<>>, phone_number |-> <<>>, email |-> <<>>, address |-> <<>>,
     business_type |-> "none", food_type |-> "none", handling_instructions |-> <<>>,
     donor_id |-> 0, quantity_kg |-> 0, best_before_date |-> 0,
     receiver_id |-> 0, surplus_post_id |-> 0, driver_id |-> 0, rating |-> <<>>]

ProfileCall(op, sender, in, business_type) ==
    [NoCall EXCEPT !.op = op, !.sender = sender, !.name = in[1],
                   !.phone_number = in[2], !.email = in[3], !.address = in[4],
                   !.business_type = business_type]

PostCall(sender, donor_id, food_type, in, handling_instructions) ==
    [NoCall EXCEPT !.op = "create_surplus_post", !.sender = sender,
                   !.donor_id = donor_id, !.food_type = food_type,
                   !.quantity_kg = in[1], !.best_before_date = in[2],
                   !.handling_instructions = handling_instructions]

AssignmentCall(sender, receiver_id, surplus_post_id, driver_id) ==
    [NoCall EXCEPT !.op = "create_assignment", !.sender = sender,
                   !.receiver_id = receiver_id, !.surplus_post_id = surplus_post_id,
                   !.driver_id = driver_id]

RecordCall(sender, surplus_post_id, driver_id, rating) ==
    [NoCall EXCEPT !.op = "create_surplus_record", !.sender = sender,
                   !.surplus_post_id = surplus_post_id, !.driver_id = driver_id,
                   !.rating = rating]

\* oracle: the governance answer the call got, "none" when it was not asked.
\* seen: Len(ASSIGNMENTS) when the call entered (the assignments after that
\* were stored while the call ran); id: the id issued, 0 if none; value: the
\* Vec a query returns.
NoReply ==
    [call |-> NoCall, oracle |-> "none", seen |-> 0, result |-> "none", id |-> 0,
     value |-> <<>>]

Reply(c, oracle, seen, result, id) ==
    [call |-> c, oracle |-> oracle, seen |-> seen, result |-> result, id |-> id,
     value |-> <<>>]

(***************************************************************************)
(* Revision A: the checks of the handlers, in the order of the code.       *)
(***************************************************************************)
\* unwrap_or(true) in place of unwrap_or(false): a failed call approves.
is_governance_accepted_open(response) ==
    IF response = "reject" THEN TRUE ELSE response = "true"

\* lib.rs:532-542: call(...).await.unwrap_or(false); "none" is the call
\* that `sender != subject &&` did not make.
is_governance_accepted(response) ==
    IF response = "reject" THEN FALSE ELSE response = "true"

\* The counter's value returned without the increment.
next_id_stuck(current_value) == current_value

\* lib.rs:174-178: the counter is incremented and the new value is the id.
next_id(current_value) == current_value + 1

\* lib.rs:150, 206, 261
profile_authorized(c, oracle) == is_governance_accepted(oracle)

\* Lines 159-162 left out.
email_exists_skipped(registry, email) == FALSE

\* Lines 159-162 looking in the three profile registries.
email_exists_anywhere(registry, email) ==
    \/ \E i \in DOMAIN DONORS : DONORS[i].email = email
    \/ \E i \in DOMAIN RECEIVERS : RECEIVERS[i].email = email
    \/ \E i \in DOMAIN DRIVERS : DRIVERS[i].email = email

\* lib.rs:159, 215, 270: iter().any(|donor| donor.email == email)
email_exists(registry, email) ==
    \E i \in DOMAIN registry : registry[i].email = email

\* The checks of lines 147-172 with the phone number format looked at before
\* the required fields.
create_profile_check_phone_first(registry, c, oracle) ==
    IF ~profile_authorized(c, oracle) THEN "Unauthorized"
    ELSE IF len(c.phone_number) # 10 \/ ~all_numeric(c.phone_number)
        THEN "Invalid phone number format"
    ELSE IF is_empty(c.name) \/ is_empty(c.phone_number) \/ is_empty(c.email)
            \/ is_empty(c.address)
        THEN "All fields are required"
    ELSE IF email_exists(registry, c.email) THEN "Email already exists"
    ELSE IF ~contains(c.email, "@") THEN "Invalid email format"
    ELSE "Ok"

\* lib.rs:147-172, the checks of create_donor_profile in order (the receiver
\* and driver handlers, 203-228 and 258-283, repeat them over their registry).
create_profile_check(registry, c, oracle) ==
    IF ~profile_authorized(c, oracle) THEN "Unauthorized"
    ELSE IF is_empty(c.name) \/ is_empty(c.phone_number) \/ is_empty(c.email)
            \/ is_empty(c.address)
        THEN "All fields are required"
    ELSE IF email_exists(registry, c.email) THEN "Email already exists"
    ELSE IF ~contains(c.email, "@") THEN "Invalid email format"
    ELSE IF len(c.phone_number) # 10 \/ ~all_numeric(c.phone_number)
        THEN "Invalid phone number format"
    ELSE "Ok"

\* Line 317 without `sender != donor_id &&`.
post_authorized_governed(c, oracle) == is_governance_accepted(oracle)

\* lib.rs:317
post_authorized(c, oracle) ==
    ~(c.sender # c.donor_id /\ ~is_governance_accepted(oracle))

\* Lines 324-331 left out.
create_surplus_post_check_any_donor(c, oracle) ==
    IF ~post_authorized(c, oracle) THEN "Unauthorized"
    ELSE IF c.donor_id = Anonymous \/ c.quantity_kg = 0 \/ c.best_before_date = 0
        THEN "All fields are required"
    ELSE "Ok"

\* lib.rs:314-333
create_surplus_post_check(c, oracle) ==
    IF ~post_authorized(c, oracle) THEN "Unauthorized"
    ELSE IF c.donor_id = Anonymous \/ c.quantity_kg = 0 \/ c.best_before_date = 0
        THEN "All fields are required"
    ELSE IF ~(\E i \in DOMAIN DONORS : DONORS[i].id = c.donor_id)
        THEN "Donor ID does not exist"
    ELSE "Ok"

\* lib.rs:366
assignment_authorized(c, oracle) ==
    ~(c.sender # c.driver_id /\ ~is_governance_accepted(oracle))

\* Lines 395-399 left out.
already_assigned_skipped(surplus_post_id) == FALSE

\* Lines 395-399 comparing the assignment's own id.
already_assigned_by_id(surplus_post_id) ==
    \E i \in DOMAIN ASSIGNMENTS : ASSIGNMENTS[i].id = surplus_post_id

\* lib.rs:395-399
already_assigned(surplus_post_id) ==
    \E i \in DOMAIN ASSIGNMENTS : ASSIGNMENTS[i].surplus_post_id = surplus_post_id

\* lib.rs:404-408
driver_assigned(driver_id) ==
    \E i \in DOMAIN ASSIGNMENTS : ASSIGNMENTS[i].driver_id = driver_id

\* Lines 375-393 accepting any id.
id_exists_always(registry, id) == TRUE

\* lib.rs:375-392: iter().any(|receiver| receiver.id == receiver_id)
id_exists(registry, id) == \E i \in DOMAIN registry : registry[i].id = id

\* Lines 395-411 with the driver looked at before the surplus post.
create_assignment_check_driver_first(c, oracle) ==
    LET receiver_exists == id_exists(RECEIVERS, c.receiver_id)
        surplus_post_exists == id_exists(SURPLUS_POSTS, c.surplus_post_id)
        driver_exists == id_exists(DRIVERS, c.driver_id)
    IN  IF ~assignment_authorized(c, oracle) THEN "Unauthorized"
        ELSE IF c.receiver_id = 0 \/ c.surplus_post_id = 0 \/ c.driver_id = 0
            THEN "All fields are required"
        ELSE IF ~receiver_exists \/ ~surplus_post_exists \/ ~driver_exists
            THEN "The provided IDs are invalid."
        ELSE IF driver_assigned(c.driver_id)
            THEN "The driver is already assigned to another post."
        ELSE IF already_assigned(c.surplus_post_id)
            THEN "The surplus post is already assigned."
        ELSE "Ok"

\* lib.rs:363-411
create_assignment_check(c, oracle) ==
    LET receiver_exists == id_exists(RECEIVERS, c.receiver_id)
        surplus_post_exists == id_exists(SURPLUS_POSTS, c.surplus_post_id)
        driver_exists == id_exists(DRIVERS, c.driver_id)
    IN  IF ~assignment_authorized(c, oracle) THEN "Unauthorized"
        ELSE IF c.receiver_id = 0 \/ c.surplus_post_id = 0 \/ c.driver_id = 0
            THEN "All fields are required"
        ELSE IF ~receiver_exists \/ ~surplus_post_exists \/ ~driver_exists
            THEN "The provided IDs are invalid."
        ELSE IF already_assigned(c.surplus_post_id)
            THEN "The surplus post is already assigned."
        ELSE IF driver_assigned(c.driver_id)
            THEN "The driver is already assigned to another post."
        ELSE "Ok"

\* lib.rs:443
record_authorized(c, oracle) ==
    ~(c.sender # c.driver_id /\ ~is_governance_accepted(oracle))

\* Lines 453-457 without `&& post.assigned`.
post_exists(surplus_post_id) ==
    \E i \in DOMAIN SURPLUS_POSTS : SURPLUS_POSTS[i].id = surplus_post_id

\* lib.rs:453-457
assigned_post_exists(surplus_post_id) ==
    \E i \in DOMAIN SURPLUS_POSTS :
        SURPLUS_POSTS[i].id = surplus_post_id /\ SURPLUS_POSTS[i].assigned

\* lib.rs:440-474
create_surplus_record_check(c, oracle) ==
    LET surplus_post_exists == assigned_post_exists(c.surplus_post_id)
        driver_exists == \E i \in DOMAIN DRIVERS : DRIVERS[i].id = c.driver_id
        already_recorded ==
            \E i \in DOMAIN SURPLUS_RECORDS :
                SURPLUS_RECORDS[i].surplus_post_id = c.surplus_post_id
    IN  IF ~record_authorized(c, oracle) THEN "Unauthorized"
        ELSE IF c.surplus_post_id = 0 \/ c.driver_id = 0 THEN "All fields are required"
        ELSE IF ~surplus_post_exists \/ ~driver_exists
            THEN "The provided IDs are invalid."
        ELSE IF already_recorded
            THEN "The surplus post is already recorded for delivery."
        ELSE "Ok"

(***************************************************************************)
(* Revision A: the handlers.                                               *)
(***************************************************************************)
Init ==
    /\ DONORS = <<>>
    /\ RECEIVERS = <<>>
    /\ DRIVERS = <<>>
    /\ SURPLUS_POSTS = <<>>
    /\ ASSIGNMENTS = <<>>
    /\ SURPLUS_RECORDS = <<>>
    /\ ID_COUNTER = 0
    /\ inflight = EmptyBag
    /\ reply = NoReply
    /\ delivery_calls = {}

\* The store after donor, posting, driver, receiver (the calls of the spec's
\* scenarios 1 and 2, ids 1 to 4) and a second driver and posting (5, 6).
InitPopulated ==
    /\ DONORS = <<[id |-> 1, name |-> Ann, phone_number |-> Phone, email |-> ann_x,
                   address |-> Road, business_type |-> "restaurant"]>>
    /\ SURPLUS_POSTS =
            <<[id |-> 2, donor_id |-> 1, food_type |-> "vegetables", quantity_kg |-> 10,
               best_before_date |-> 1, handling_instructions |-> <<"c", "o", "l", "d">>,
               assigned |-> FALSE],
              [id |-> 6, donor_id |-> 1, food_type |-> "vegetables", quantity_kg |-> 10,
               best_before_date |-> 1, handling_instructions |-> <<"c", "o", "l", "d">>,
               assigned |-> FALSE]>>
    /\ DRIVERS = <<[id |-> 3, name |-> Ann, phone_number |-> Phone, email |-> bo_x,
                    address |-> Road],
                   [id |-> 5, name |-> Ann, phone_number |-> Phone, email |-> ann_x,
                    address |-> Road]>>
    /\ RECEIVERS = <<[id |-> 4, name |-> Ann, phone_number |-> Phone, email |-> cy_x,
                      address |-> Road]>>
    /\ ASSIGNMENTS = <<>>
    /\ SURPLUS_RECORDS = <<>>
    /\ ID_COUNTER = 6
    /\ inflight = EmptyBag
    /\ reply = NoReply
    /\ delivery_calls = {}

\* The canister runs one message at a time: a message starts when the reply
\* of the one before it has been sent.
Idle == reply = NoReply

\* A call reaches the await of is_governance_accepted (line 539) and is
\* suspended.
Suspend(op) == inflight (+) SetToBag({[op |-> op, seen |-> Len(ASSIGNMENTS)]})

\* The governance answer arrives for the suspended call e.
Resumes(e, op) ==
    /\ Idle
    /\ e.op = op
    /\ inflight' = inflight (-) SetToBag({e})

\* The reply of the call that ended is sent to its caller.
respond ==
    /\ ~Idle
    /\ reply' = NoReply
    /\ UNCHANGED <<store, inflight, delivery_calls, rev_b, rev_d>>

\* The new element put in front of the stored ones.
push_front(registry, e) ==
    <<e>> \o registry

\* lib.rs:190: X.write().unwrap().push(e), the new element after the last.
push(registry, e) ==
    Append(registry, e)

\* An error path that has already taken an id from the counter.
Fail_consuming(c, oracle, seen, result) ==
    /\ reply' = Reply(c, oracle, seen, result, 0)
    /\ ID_COUNTER' = ID_COUNTER + 1
    /\ UNCHANGED <<registries, delivery_calls, rev_b, rev_d>>

\* `return Err(...)`: the reply is all that changes.
Fail(c, oracle, seen, result) ==
    /\ reply' = Reply(c, oracle, seen, result, 0)
    /\ UNCHANGED <<store, delivery_calls, rev_b, rev_d>>

\* lib.rs:154-193
create_donor_profile_body(c, oracle, seen) ==
    LET result == create_profile_check(DONORS, c, oracle)
        id == next_id(ID_COUNTER)
    IN  IF result = "Ok"
        THEN /\ ID_COUNTER < MaxId
             /\ ID_COUNTER' = id
             /\ DONORS' = push(DONORS,
                    [id |-> id, name |-> c.name, phone_number |-> c.phone_number,
                     email |-> c.email, address |-> c.address,
                     business_type |-> c.business_type])
             /\ reply' = Reply(c, oracle, seen, "Ok", id)
             /\ UNCHANGED <<RECEIVERS, DRIVERS, SURPLUS_POSTS, ASSIGNMENTS, SURPLUS_RECORDS, delivery_calls, rev_b, rev_d>>
        ELSE Fail(c, oracle, seen, result)

\* lib.rs:210-248
create_receiver_profile_body(c, oracle, seen) ==
    LET result == create_profile_check(RECEIVERS, c, oracle)
        id == next_id(ID_COUNTER)
    IN  IF result = "Ok"
        THEN /\ ID_COUNTER < MaxId
             /\ ID_COUNTER' = id
             /\ RECEIVERS' = push(RECEIVERS,
                    [id |-> id, name |-> c.name, phone_number |-> c.phone_number,
                     email |-> c.email, address |-> c.address])
             /\ reply' = Reply(c, oracle, seen, "Ok", id)
             /\ UNCHANGED <<DONORS, DRIVERS, SURPLUS_POSTS, ASSIGNMENTS, SURPLUS_RECORDS, delivery_calls, rev_b, rev_d>>
        ELSE Fail(c, oracle, seen, result)

\* lib.rs:265-303
create_driver_profile_body(c, oracle, seen) ==
    LET result == create_profile_check(DRIVERS, c, oracle)
        id == next_id(ID_COUNTER)
    IN  IF result = "Ok"
        THEN /\ ID_COUNTER < MaxId
             /\ ID_COUNTER' = id
             /\ DRIVERS' = push(DRIVERS,
                    [id |-> id, name |-> c.name, phone_number |-> c.phone_number,
                     email |-> c.email, address |-> c.address])
             /\ reply' = Reply(c, oracle, seen, "Ok", id)
             /\ UNCHANGED <<DONORS, RECEIVERS, SURPLUS_POSTS, ASSIGNMENTS, SURPLUS_RECORDS, delivery_calls, rev_b, rev_d>>
        ELSE Fail(c, oracle, seen, result)

\* lib.rs:321-354
create_surplus_post_body(c, oracle, seen) ==
    LET result == create_surplus_post_check(c, oracle)
        id == next_id(ID_COUNTER)
    IN  IF result = "Ok"
        THEN /\ ID_COUNTER < MaxId
             /\ ID_COUNTER' = id
             /\ SURPLUS_POSTS' = push(SURPLUS_POSTS,
                    [id |-> id, donor_id |-> c.donor_id, food_type |-> c.food_type,
                     quantity_kg |-> c.quantity_kg,
                     best_before_date |-> c.best_before_date,
                     handling_instructions |-> c.handling_instructions,
                     assigned |-> FALSE])
             /\ reply' = Reply(c, oracle, seen, "Ok", id)
             /\ UNCHANGED <<DONORS, RECEIVERS, DRIVERS, ASSIGNMENTS, SURPLUS_RECORDS, delivery_calls, rev_b, rev_d>>
        ELSE Fail(c, oracle, seen, result)

\* lib.rs:370-431
create_assignment_body(c, oracle, seen) ==
    LET result == create_assignment_check(c, oracle)
        id == next_id(ID_COUNTER)
    IN  IF result = "Ok"
        THEN /\ ID_COUNTER' = id
             /\ ASSIGNMENTS' = push(ASSIGNMENTS,
                    [id |-> id, receiver_id |-> c.receiver_id,
                     surplus_post_id |-> c.surplus_post_id, driver_id |-> c.driver_id,
                     status |-> "Pending"])
             /\ reply' = Reply(c, oracle, seen, "Ok", id)
             /\ UNCHANGED <<DONORS, RECEIVERS, DRIVERS, SURPLUS_POSTS, SURPLUS_RECORDS, delivery_calls, rev_b, rev_d>>
        ELSE Fail(c, oracle, seen, result)

\* History of the delivery calls: the post of an authorized
\* create_surplus_record that names the driver of the post's Assignment.
delivery_called(c, oracle) ==
    IF /\ record_authorized(c, oracle)
       /\ \E i \in DOMAIN ASSIGNMENTS :
            /\ ASSIGNMENTS[i].surplus_post_id = c.surplus_post_id
            /\ ASSIGNMENTS[i].driver_id = c.driver_id
    THEN delivery_calls \cup {c.surplus_post_id}
    ELSE delivery_calls

\* lib.rs:447-493
create_surplus_record_body(c, oracle, seen) ==
    LET result == create_surplus_record_check(c, oracle)
        id == next_id(ID_COUNTER)
    IN  IF result = "Ok"
        THEN /\ ID_COUNTER' = id
             /\ SURPLUS_RECORDS' = push(SURPLUS_RECORDS,
                    [id |-> id, surplus_post_id |-> c.surplus_post_id,
                     driver_id |-> c.driver_id, rating |-> c.rating])
             /\ reply' = Reply(c, oracle, seen, "Ok", id)
             /\ delivery_calls' = delivery_called(c, oracle)
             /\ UNCHANGED <<DONORS, RECEIVERS, DRIVERS, SURPLUS_POSTS, ASSIGNMENTS, rev_b, rev_d>>
        ELSE /\ reply' = Reply(c, oracle, seen, result, 0)
             /\ delivery_calls' = delivery_called(c, oracle)
             /\ UNCHANGED <<store, rev_b, rev_d>>

\* lib.rs:140-150: create_donor_profile up to the governance await.
create_donor_profile ==
    /\ Idle
    /\ BagCardinality(inflight) < MaxInFlight
    /\ inflight' = Suspend("create_donor_profile")
    /\ UNCHANGED <<store, reply, delivery_calls, rev_b, rev_d>>

\* lib.rs:150-193: the answer arrives, the handler runs to its end.
create_donor_profile_resume ==
    \E e \in BagToSet(inflight), r \in Responses, in \in ProfileInputs, b \in BusinessTypes :
        /\ Resumes(e, "create_donor_profile")
        /\ create_donor_profile_body(
                ProfileCall("create_donor_profile", Stranger, in, b), r,
                e.seen)

\* lib.rs:197-206
create_receiver_profile ==
    /\ Idle
    /\ BagCardinality(inflight) < MaxInFlight
    /\ inflight' = Suspend("create_receiver_profile")
    /\ UNCHANGED <<store, reply, delivery_calls, rev_b, rev_d>>

\* lib.rs:206-248
create_receiver_profile_resume ==
    \E e \in BagToSet(inflight), r \in Responses, in \in ProfileInputs :
        /\ Resumes(e, "create_receiver_profile")
        /\ create_receiver_profile_body(
                ProfileCall("create_receiver_profile", Stranger, in, "none"), r,
                e.seen)

\* lib.rs:252-261
create_driver_profile ==
    /\ Idle
    /\ BagCardinality(inflight) < MaxInFlight
    /\ inflight' = Suspend("create_driver_profile")
    /\ UNCHANGED <<store, reply, delivery_calls, rev_b, rev_d>>

\* lib.rs:261-303
create_driver_profile_resume ==
    \E e \in BagToSet(inflight), r \in Responses, in \in ProfileInputs :
        /\ Resumes(e, "create_driver_profile")
        /\ create_driver_profile_body(
                ProfileCall("create_driver_profile", Stranger, in, "none"), r,
                e.seen)

\* lib.rs:307-354: create_surplus_post called by the donor it names: the
\* `&&` of line 317 makes no governance call, the handler runs to its end.
create_surplus_post ==
    \E d \in IdArgs(DONORS), f \in FoodTypes, in \in PostInputs, h \in Instructions :
        /\ Idle
        /\ create_surplus_post_body(PostCall(d, d, f, in, h), "none", Len(ASSIGNMENTS))
        /\ UNCHANGED inflight

\* lib.rs:307-317: called by another principal, up to the governance await.
create_surplus_post_await ==
    /\ Idle
    /\ BagCardinality(inflight) < MaxInFlight
    /\ inflight' = Suspend("create_surplus_post")
    /\ UNCHANGED <<store, reply, delivery_calls, rev_b, rev_d>>

\* lib.rs:317-354
create_surplus_post_resume ==
    \E e \in BagToSet(inflight), r \in Responses, d \in IdArgs(DONORS), f \in FoodTypes,
       in \in PostInputs, h \in Instructions :
        /\ Resumes(e, "create_surplus_post")
        /\ create_surplus_post_body(PostCall(Stranger, d, f, in, h), r,
                                    e.seen)

\* lib.rs:358-431: create_assignment called by the driver it names.
create_assignment ==
    \E in \in AssignmentInputs :
        /\ Idle
        /\ create_assignment_body(AssignmentCall(in[3], in[1], in[2], in[3]), "none",
                                  Len(ASSIGNMENTS))
        /\ UNCHANGED inflight

\* lib.rs:358-366
create_assignment_await ==
    /\ Idle
    /\ BagCardinality(inflight) < MaxInFlight
    /\ inflight' = Suspend("create_assignment")
    /\ UNCHANGED <<store, reply, delivery_calls, rev_b, rev_d>>

\* lib.rs:366-431
create_assignment_resume ==
    \E e \in BagToSet(inflight), r \in Responses, in \in AssignmentInputs :
        /\ Resumes(e, "create_assignment")
        /\ create_assignment_body(AssignmentCall(Stranger, in[1], in[2], in[3]), r,
                                  e.seen)

\* lib.rs:435-493: create_surplus_record called by the driver it names.
create_surplus_record ==
    \E in \in RecordInputs, rt \in Ratings :
        /\ Idle
        /\ create_surplus_record_body(RecordCall(in[2], in[1], in[2], rt), "none",
                                      Len(ASSIGNMENTS))
        /\ UNCHANGED inflight

\* lib.rs:435-443
create_surplus_record_await ==
    /\ Idle
    /\ BagCardinality(inflight) < MaxInFlight
    /\ inflight' = Suspend("create_surplus_record")
    /\ UNCHANGED <<store, reply, delivery_calls, rev_b, rev_d>>

\* lib.rs:443-493
create_surplus_record_resume ==
    \E e \in BagToSet(inflight), r \in Responses, in \in RecordInputs, rt \in Ratings :
        /\ Resumes(e, "create_surplus_record")
        /\ create_surplus_record_body(RecordCall(Stranger, in[1], in[2], rt), r,
                                      e.seen)

(***************************************************************************)
(* Revision A: the queries (lib.rs:495-529).  A query runs in one step, on *)
(* the state committed by the messages before it.                          *)
(***************************************************************************)
\* The copy with its elements in the opposite order.
to_vec_reversed(registry) ==
    [i \in 1..Len(registry) |-> registry[Len(registry) + 1 - i]]

\* lib.rs:498: to_vec() copies the elements of the vector, first to last.
to_vec(registry) ==
    [i \in 1..Len(registry) |-> registry[i]]

\* lib.rs:497-499: the reply of a query, X.read().unwrap().to_vec().
Returned(op, registry) ==
    [NoReply EXCEPT !.call.op = op, !.result = "Ok", !.value = to_vec(registry)]

\* lib.rs:496-499
get_all_donors ==
    /\ Idle
    /\ reply' = Returned("get_all_donors", DONORS)
    /\ UNCHANGED <<store, inflight, delivery_calls, rev_b, rev_d>>

\* lib.rs:502-505
get_all_receivers ==
    /\ Idle
    /\ reply' = Returned("get_all_receivers", RECEIVERS)
    /\ UNCHANGED <<store, inflight, delivery_calls, rev_b, rev_d>>

\* lib.rs:508-511
get_all_drivers ==
    /\ Idle
    /\ reply' = Returned("get_all_drivers", DRIVERS)
    /\ UNCHANGED <<store, inflight, delivery_calls, rev_b, rev_d>>

\* lib.rs:514-517
get_all_surplus_posts ==
    /\ Idle
    /\ reply' = Returned("get_all_surplus_posts", SURPLUS_POSTS)
    /\ UNCHANGED <<store, inflight, delivery_calls, rev_b, rev_d>>

\* lib.rs:520-523
get_all_assignments ==
    /\ Idle
    /\ reply' = Returned("get_all_assignments", ASSIGNMENTS)
    /\ UNCHANGED <<store, inflight, delivery_calls, rev_b, rev_d>>

\* lib.rs:526-529
get_all_surplus_records ==
    /\ Idle
    /\ reply' = Returned("get_all_surplus_records", SURPLUS_RECORDS)
    /\ UNCHANGED <<store, inflight, delivery_calls, rev_b, rev_d>>

(***************************************************************************)
(* Revision B (lib.rs:546-874).  is_governance_accepted (782-785) compares *)
(* the caller with the canister's own id and awaits nothing, so a handler  *)
(* of this revision runs from entry to reply in one step.                  *)
(***************************************************************************)
\* ic_cdk::id(), the canister's own principal (lib.rs:783).
Canister == -2

\* lib.rs:782-785
is_governance_accepted_b(caller) == Canister = caller

CallersB == {Canister, Stranger}

NoCall_b ==
    [op |-> "none", caller |-> Anonymous, donor_id |-> 0, quantity |-> 0,
     surplus_post_id |-> 0, driver_id |-> 0, rating |-> 0,
     receiver_id |-> 0, food_request_id |-> 0, sender_id |-> 0, recipient_id |-> 0,
     message_id |-> 0]

NoReply_b == [call |-> NoCall_b, result |-> "none", id |-> 0]

\* Option<u32>: <<>> is None, <<d>> is Some(d).
InitB ==
    /\ DONORS_b = <<>>
    /\ RECEIVERS_b = <<>>
    /\ DRIVERS_b = <<>>
    /\ SURPLUS_POSTS_b = <<>>
    /\ ASSIGNMENTS_b = <<>>
    /\ SURPLUS_RECORDS_b = <<>>
    /\ ID_COUNTER_b = 0
    /\ reply_b = NoReply_b
    /\ blocked = EmptyBag
    /\ FOOD_REQUESTS = <<>>
    /\ FOOD_RECORDS = <<>>
    /\ MESSAGES = <<>>

\* Revision B's store after create_donor_profile, create_surplus_post,
\* create_driver_profile, create_receiver_profile, create_driver_profile,
\* create_surplus_post (ids 1 to 6).
InitPopulatedB ==
    /\ DONORS_b = <<[id |-> 1, name |-> Ann, address |-> Road, phone |-> Phone,
                     email |-> ann_x]>>
    /\ SURPLUS_POSTS_b =
            <<[id |-> 2, donor_id |-> 1, description |-> <<"c", "o", "l", "d">>,
               quantity |-> 10, assigned |-> FALSE, assigned_to |-> <<>>],
              [id |-> 6, donor_id |-> 1, description |-> <<"c", "o", "l", "d">>,
               quantity |-> 10, assigned |-> FALSE, assigned_to |-> <<>>]>>
    /\ DRIVERS_b = <<[id |-> 3, name |-> Ann, address |-> Road, phone |-> Phone,
                      email |-> bo_x],
                     [id |-> 5, name |-> Ann, address |-> Road, phone |-> Phone,
                      email |-> ann_x]>>
    /\ RECEIVERS_b = <<[id |-> 4, name |-> Ann, address |-> Road, phone |-> Phone,
                        email |-> cy_x]>>
    /\ ASSIGNMENTS_b = <<>>
    /\ SURPLUS_RECORDS_b = <<>>
    /\ ID_COUNTER_b = 6
    /\ reply_b = NoReply_b
    /\ blocked = EmptyBag
    /\ FOOD_REQUESTS = <<>>
    /\ FOOD_RECORDS = <<>>
    /\ MESSAGES = <<>>

Idle_b == reply_b = NoReply_b

Fail_b(c, result) ==
    /\ reply_b' = [call |-> c, result |-> result, id |-> 0]
    /\ UNCHANGED <<store_b, blocked, rev_a, rev_d>>

\* The ids tried for revision B's (surplus_post_id, driver_id) requests.
AssignInputsB ==
    LET MissingB == ID_COUNTER_b + 1
        P == ids(SURPLUS_POSTS_b)
        D == ids(DRIVERS_b)
    IN  (P \X D) \cup ({MissingB} \X D) \cup (P \X {MissingB})

\* Lines 692-698 alone: the flag written, assigned_to left as it was.
set_assigned_only(posts, surplus_post_id, assigned, assigned_to) ==
    LET found == {i \in DOMAIN posts : posts[i].id = surplus_post_id}
        first == CHOOSE i \in found : \A j \in found : i <= j
    IN  [posts EXCEPT ![first] = [@ EXCEPT !.assigned = assigned]]

\* lib.rs:692-705: find(|post| post.id == surplus_post_id) and the writes of
\* assigned and assigned_to, two statements of one uninterrupted step.
set_assigned(posts, surplus_post_id, assigned, assigned_to) ==
    LET found == {i \in DOMAIN posts : posts[i].id = surplus_post_id}
        first == CHOOSE i \in found : \A j \in found : i <= j
    IN  [posts EXCEPT ![first] =
            [@ EXCEPT !.assigned = assigned, !.assigned_to = assigned_to]]

\* lib.rs:661-678
assign_driver_check(c) ==
    LET driver_exists == \E i \in DOMAIN DRIVERS_b : DRIVERS_b[i].id = c.driver_id
        surplus_post_exists ==
            \E i \in DOMAIN SURPLUS_POSTS_b :
                SURPLUS_POSTS_b[i].id = c.surplus_post_id /\ ~SURPLUS_POSTS_b[i].assigned
    IN  IF ~is_governance_accepted_b(c.caller)
            THEN "You are not authorized to perform this action."
        ELSE IF ~driver_exists \/ ~surplus_post_exists
            THEN "The provided IDs are invalid or the surplus post is already assigned."
        ELSE "Ok"

\* lib.rs:659-708
assign_driver_to_surplus_post ==
    \E in \in AssignInputsB, caller \in CallersB :
        LET c == [NoCall_b EXCEPT !.op = "assign_driver_to_surplus_post",
                                  !.caller = caller, !.surplus_post_id = in[1],
                                  !.driver_id = in[2]]
            result == assign_driver_check(c)
            id == next_id(ID_COUNTER_b)
        IN  /\ Idle_b
            /\ IF result = "Ok"
               THEN /\ Len(ASSIGNMENTS_b) < MaxAssign
                    /\ ID_COUNTER_b' = id
                    /\ SURPLUS_POSTS_b' =
                            set_assigned(SURPLUS_POSTS_b, c.surplus_post_id, TRUE,
                                         <<c.driver_id>>)
                    /\ ASSIGNMENTS_b' = Append(ASSIGNMENTS_b,
                            [id |-> id, driver_id |-> c.driver_id,
                             surplus_post_id |-> c.surplus_post_id])
                    /\ reply_b' = [call |-> c, result |-> "Ok", id |-> id]
                    /\ UNCHANGED <<DONORS_b, RECEIVERS_b, DRIVERS_b, SURPLUS_RECORDS_b, blocked, rev_a, rev_d>>
               ELSE Fail_b(c, result)

\* lib.rs:713-731
record_delivery_check(c) ==
    LET driver_exists == \E i \in DOMAIN DRIVERS_b : DRIVERS_b[i].id = c.driver_id
        surplus_post_exists ==
            \E i \in DOMAIN SURPLUS_POSTS_b :
                SURPLUS_POSTS_b[i].id = c.surplus_post_id /\ SURPLUS_POSTS_b[i].assigned
    IN  IF ~is_governance_accepted_b(c.caller)
            THEN "You are not authorized to perform this action."
        ELSE IF ~driver_exists \/ ~surplus_post_exists
            THEN "The provided IDs are invalid or the surplus post is not assigned."
        ELSE "Ok"

\* lib.rs:712-762
record_surplus_delivery ==
    \E in \in AssignInputsB, caller \in CallersB :
        LET c == [NoCall_b EXCEPT !.op = "record_surplus_delivery",
                                  !.caller = caller, !.surplus_post_id = in[1],
                                  !.driver_id = in[2], !.rating = 5]
            result == record_delivery_check(c)
            id == next_id(ID_COUNTER_b)
        IN  /\ Idle_b
            /\ IF result = "Ok"
               THEN /\ ID_COUNTER_b' = id
                    /\ SURPLUS_POSTS_b' =
                            set_assigned(SURPLUS_POSTS_b, c.surplus_post_id, FALSE, <<>>)
                    /\ SURPLUS_RECORDS_b' = Append(SURPLUS_RECORDS_b,
                            [id |-> id, surplus_post_id |-> c.surplus_post_id,
                             driver_id |-> c.driver_id, rating |-> c.rating])
                    /\ reply_b' = [call |-> c, result |-> "Ok", id |-> id]
                    /\ UNCHANGED <<DONORS_b, RECEIVERS_b, DRIVERS_b, ASSIGNMENTS_b, blocked, rev_a, rev_d>>
               ELSE Fail_b(c, result)

\* The reply of the call that ended is sent to its caller.
respond_b ==
    /\ ~Idle_b
    /\ reply_b' = NoReply_b
    /\ UNCHANGED <<store_b, blocked, rev_a, rev_d>>

(***************************************************************************)
(* Revision C (lib.rs:875-1094): add_* / assign / record over the statics  *)
(* of lines 856-874, locked with read().await and write().await.  A read   *)
(* guard lives to the end of the function that took it.  A lock is granted *)
(* at once when it is free, so a handler runs to its reply in one step     *)
(* unless it asks for the write lock of a registry that some call holds    *)
(* for reading; it is then suspended with its guards.  The calls suspended *)
(* here hold, or wait for a call that holds, the read guard they wait for, *)
(* and no step releases it.  Readers are taken to share the lock whether   *)
(* or not a writer waits.                                                  *)
(***************************************************************************)
registries_b ==
    <<DONORS_b, RECEIVERS_b, DRIVERS_b, SURPLUS_POSTS_b, ASSIGNMENTS_b, SURPLUS_RECORDS_b>>

\* Some suspended call holds the read guard of the registry.
read_held(lock) == \E b \in BagToSet(blocked) : lock \in b.holds

\* A call is suspended at lock.write().await with the read guards it holds.
Blocks(op, holds, lock) ==
    /\ BagCardinality(blocked) < MaxBlocked
    /\ blocked' = blocked (+) SetToBag({[op |-> op, holds |-> holds, waits |-> lock]})

\* lib.rs:979-999
add_surplus_post ==
    \E donor_id \in ids(DONORS_b) \cup {ID_COUNTER_b + 1}, caller \in CallersB :
        LET c == [NoCall_b EXCEPT !.op = "add_surplus_post", !.caller = caller,
                                  !.donor_id = donor_id, !.quantity = 10]
            id == next_id(ID_COUNTER_b)
        IN  /\ Idle_b
            /\ IF ~(\E i \in DOMAIN DONORS_b : DONORS_b[i].id = donor_id)
               THEN Fail_b(c, "Donor profile does not exist")
               ELSE /\ ID_COUNTER_b < MaxIdC
                    /\ ID_COUNTER_b' = id
                    /\ IF read_held("SURPLUS_POSTS")
                       THEN /\ Blocks("add_surplus_post", {"DONORS"}, "SURPLUS_POSTS")
                            /\ UNCHANGED <<registries_b, reply_b, rev_a, rev_d>>
                       ELSE /\ SURPLUS_POSTS_b' = Append(SURPLUS_POSTS_b,
                                    [id |-> id, donor_id |-> donor_id,
                                     description |-> <<"c", "o", "l", "d">>,
                                     quantity |-> c.quantity, assigned |-> FALSE,
                                     assigned_to |-> <<>>])
                            /\ reply_b' = [call |-> c, result |-> "Ok", id |-> id]
                            /\ UNCHANGED <<DONORS_b, RECEIVERS_b, DRIVERS_b, ASSIGNMENTS_b,
                                           SURPLUS_RECORDS_b, blocked, rev_a, rev_d>>

\* lib.rs:1010-1029: the handler holds the read guard `surplus_posts` when
\* it asks for SURPLUS_POSTS.write() at line 1029.
assign_driver_to_surplus_post_c ==
    \E in \in AssignInputsB, caller \in CallersB :
        LET c == [NoCall_b EXCEPT !.op = "assign_driver_to_surplus_post_c",
                                  !.caller = caller, !.surplus_post_id = in[1],
                                  !.driver_id = in[2]]
        IN  /\ Idle_b
            /\ IF ~(\E i \in DOMAIN DRIVERS_b : DRIVERS_b[i].id = c.driver_id)
               THEN Fail_b(c, "Driver profile does not exist")
               ELSE IF ~(\E i \in DOMAIN SURPLUS_POSTS_b :
                            /\ SURPLUS_POSTS_b[i].id = c.surplus_post_id
                            /\ ~SURPLUS_POSTS_b[i].assigned)
               THEN Fail_b(c, "Surplus post does not exist or is already assigned")
               ELSE /\ Blocks("assign_driver_to_surplus_post_c",
                              {"DRIVERS", "SURPLUS_POSTS"}, "SURPLUS_POSTS")
                    /\ UNCHANGED <<store_b, reply_b, rev_a, rev_d>>

\* lib.rs:1054-1073
record_surplus_delivery_c ==
    \E in \in AssignInputsB, caller \in CallersB :
        LET c == [NoCall_b EXCEPT !.op = "record_surplus_delivery_c",
                                  !.caller = caller, !.surplus_post_id = in[1],
                                  !.driver_id = in[2], !.rating = 5]
        IN  /\ Idle_b
            /\ IF ~(\E i \in DOMAIN DRIVERS_b : DRIVERS_b[i].id = c.driver_id)
               THEN Fail_b(c, "Driver profile does not exist")
               ELSE IF ~(\E i \in DOMAIN SURPLUS_POSTS_b :
                            /\ SURPLUS_POSTS_b[i].id = c.surplus_post_id
                            /\ SURPLUS_POSTS_b[i].assigned
                            /\ SURPLUS_POSTS_b[i].assigned_to = <<c.driver_id>>)
               THEN Fail_b(c, "Surplus post does not exist or is not assigned to the driver")
               ELSE /\ Blocks("record_surplus_delivery_c",
                              {"DRIVERS", "SURPLUS_POSTS"}, "SURPLUS_POSTS")
                    /\ UNCHANGED <<store_b, reply_b, rev_a, rev_d>>

(***************************************************************************)
(* The food-request and messaging handlers (the second source file).  They *)
(* lock RECEIVERS, DRIVERS and ID_COUNTER of lines 856-874 and three       *)
(* registries of their own, with read().await and write().await as the     *)
(* handlers of revision C do.                                              *)
(***************************************************************************)
\* The ids a caller passes for an entity of a registry: the ids in it and an
\* id nothing has.
IdArgsB(registry) == ids(registry) \cup {ID_COUNTER_b + 1}

\* Lines 6-26
add_food_request ==
    \E receiver_id \in IdArgsB(RECEIVERS_b) :
        LET c == [NoCall_b EXCEPT !.op = "add_food_request",
                                  !.receiver_id = receiver_id, !.quantity = 2]
            id == next_id(ID_COUNTER_b)
        IN  /\ Idle_b
            /\ IF ~(\E i \in DOMAIN RECEIVERS_b : RECEIVERS_b[i].id = receiver_id)
               THEN Fail_b(c, "Receiver profile does not exist")
               ELSE /\ ID_COUNTER_b < MaxIdC
                    /\ ID_COUNTER_b' = id
                    /\ IF read_held("FOOD_REQUESTS")
                       THEN /\ Blocks("add_food_request", {"RECEIVERS"}, "FOOD_REQUESTS")
                            /\ UNCHANGED <<registries_b, reply_b, rev_a, rev_d>>
                       ELSE /\ FOOD_REQUESTS' = Append(FOOD_REQUESTS,
                                    [id |-> id, receiver_id |-> receiver_id,
                                     description |-> <<"P", "i", "e">>,
                                     quantity |-> c.quantity, assigned |-> FALSE,
                                     assigned_to |-> <<>>])
                            /\ reply_b' = [call |-> c, result |-> "Ok", id |-> id]
                            /\ UNCHANGED <<registries_b, blocked, rev_a, FOOD_RECORDS,
                                           MESSAGES>>

\* Lines 37-56: the handler holds the read guard `food_requests` of line 46
\* when it asks for FOOD_REQUESTS.write() at line 56.
assign_driver_to_food_request ==
    \E driver_id \in IdArgsB(DRIVERS_b), food_request_id \in IdArgsB(FOOD_REQUESTS) :
        LET c == [NoCall_b EXCEPT !.op = "assign_driver_to_food_request",
                                  !.driver_id = driver_id,
                                  !.food_request_id = food_request_id]
        IN  /\ Idle_b
            /\ IF ~(\E i \in DOMAIN DRIVERS_b : DRIVERS_b[i].id = driver_id)
               THEN Fail_b(c, "Driver profile does not exist")
               ELSE IF ~(\E i \in DOMAIN FOOD_REQUESTS :
                            /\ FOOD_REQUESTS[i].id = food_request_id
                            /\ ~FOOD_REQUESTS[i].assigned)
               THEN Fail_b(c, "Food request does not exist or is already assigned")
               ELSE /\ Blocks("assign_driver_to_food_request",
                              {"DRIVERS", "FOOD_REQUESTS"}, "FOOD_REQUESTS")
                    /\ UNCHANGED <<store_b, reply_b, rev_a, rev_d>>

\* Lines 81-100, with the guard of line 90 held at line 100.
record_food_delivery ==
    \E driver_id \in IdArgsB(DRIVERS_b), food_request_id \in IdArgsB(FOOD_REQUESTS) :
        LET c == [NoCall_b EXCEPT !.op = "record_food_delivery",
                                  !.driver_id = driver_id,
                                  !.food_request_id = food_request_id, !.rating = 5]
        IN  /\ Idle_b
            /\ IF ~(\E i \in DOMAIN DRIVERS_b : DRIVERS_b[i].id = driver_id)
               THEN Fail_b(c, "Driver profile does not exist")
               ELSE IF ~(\E i \in DOMAIN FOOD_REQUESTS :
                            /\ FOOD_REQUESTS[i].id = food_request_id
                            /\ FOOD_REQUESTS[i].assigned
                            /\ FOOD_REQUESTS[i].assigned_to = <<driver_id>>)
               THEN Fail_b(c, "Food request does not exist or is not assigned to the driver")
               ELSE /\ Blocks("record_food_delivery",
                              {"DRIVERS", "FOOD_REQUESTS"}, "FOOD_REQUESTS")
                    /\ UNCHANGED <<store_b, reply_b, rev_a, rev_d>>

\* Lines 126-155
send_message ==
    \E sender_id \in IdArgsB(RECEIVERS_b \o DRIVERS_b),
       recipient_id \in IdArgsB(RECEIVERS_b \o DRIVERS_b) :
        LET c == [NoCall_b EXCEPT !.op = "send_message", !.sender_id = sender_id,
                                  !.recipient_id = recipient_id]
            id == next_id(ID_COUNTER_b)
            profile_exists(user_id) ==
                \/ \E i \in DOMAIN RECEIVERS_b : RECEIVERS_b[i].id = user_id
                \/ \E i \in DOMAIN DRIVERS_b : DRIVERS_b[i].id = user_id
        IN  /\ Idle_b
            /\ IF ~profile_exists(sender_id)
               THEN Fail_b(c, "Sender profile does not exist")
               ELSE IF ~profile_exists(recipient_id)
               THEN Fail_b(c, "Recipient profile does not exist")
               ELSE /\ ID_COUNTER_b < MaxIdC
                    /\ ID_COUNTER_b' = id
                    /\ IF read_held("MESSAGES")
                       THEN /\ Blocks("send_message", {"RECEIVERS", "DRIVERS"}, "MESSAGES")
                            /\ UNCHANGED <<registries_b, reply_b, rev_a, rev_d>>
                       ELSE /\ MESSAGES' = Append(MESSAGES,
                                    [id |-> id, sender_id |-> sender_id,
                                     recipient_id |-> recipient_id,
                                     message_content |-> <<"H", "i">>])
                            /\ reply_b' = [call |-> c, result |-> "Ok", id |-> id]
                            /\ UNCHANGED <<registries_b, blocked, rev_a, FOOD_REQUESTS,
                                           FOOD_RECORDS>>

\* Lines 166-175: the handler holds the read guard `messages` of line 168
\* when it asks for MESSAGES.write() at line 175.
delete_message ==
    \E message_id \in IdArgsB(MESSAGES) :
        LET c == [NoCall_b EXCEPT !.op = "delete_message", !.message_id = message_id]
        IN  /\ Idle_b
            /\ IF ~(\E i \in DOMAIN MESSAGES : MESSAGES[i].id = message_id)
               THEN Fail_b(c, "Message does not exist")
               ELSE /\ Blocks("delete_message", {"MESSAGES"}, "MESSAGES")
                    /\ UNCHANGED <<store_b, reply_b, rev_a, rev_d>>

(***************************************************************************)
(* Specifications.                                                         *)
(***************************************************************************)
ProfileNext ==
    \/ create_donor_profile
    \/ create_donor_profile_resume
    \/ create_receiver_profile
    \/ create_receiver_profile_resume
    \/ create_driver_profile
    \/ create_driver_profile_resume
    \/ create_surplus_post
    \/ create_surplus_post_await
    \/ create_surplus_post_resume

AssignNext ==
    \/ create_assignment
    \/ create_assignment_await
    \/ create_assignment_resume
    \/ create_surplus_record
    \/ create_surplus_record_await
    \/ create_surplus_record_resume

Next == ProfileNext \/ AssignNext \/ respond

NextAssign == AssignNext \/ respond

QueryNext ==
    \/ get_all_donors
    \/ get_all_receivers
    \/ get_all_drivers
    \/ get_all_surplus_posts
    \/ get_all_assignments
    \/ get_all_surplus_records

NextQuery ==
    \/ create_assignment
    \/ create_surplus_record
    \/ QueryNext
    \/ respond

NextAssignB ==
    \/ assign_driver_to_surplus_post
    \/ record_surplus_delivery
    \/ respond_b

NextC ==
    \/ add_surplus_post
    \/ assign_driver_to_surplus_post_c
    \/ record_surplus_delivery_c
    \/ respond_b

\* Revision A, every handler, from the empty store.
InitFresh == Init /\ InitB

Spec == InitFresh /\ [][Next]_vars

\* Revision A's assignment and delivery handlers over the populated store.
InitAssign == InitPopulated /\ InitB

SpecAssign == InitAssign /\ [][NextAssign]_vars

\* Revision A's queries between the updates of the populated store.
SpecQuery == InitAssign /\ [][NextQuery]_vars

\* Revision B's assignment and delivery handlers over the populated store.
InitAssignB == Init /\ InitPopulatedB

SpecAssignB == InitAssignB /\ [][NextAssignB]_vars

\* Revision C's surplus-post handlers over the populated store.
SpecC == InitAssignB /\ [][NextC]_vars

NextFood ==
    \/ add_food_request
    \/ assign_driver_to_food_request
    \/ record_food_delivery
    \/ send_message
    \/ delete_message
    \/ respond_b

\* The food-request and messaging handlers over the populated store.
SpecFood == InitAssignB /\ [][NextFood]_vars

(***************************************************************************)
(* Properties.                                                             *)
(***************************************************************************)
ProfileOps == {"create_donor_profile", "create_receiver_profile", "create_driver_profile"}

\* The positions of the assignments that refer to a surplus post.
AssignmentsFor(surplus_post_id) ==
    {i \in DOMAIN ASSIGNMENTS : ASSIGNMENTS[i].surplus_post_id = surplus_post_id}

\* The call that has just ended is a create_assignment that was authorized,
\* named a stored receiver, post and driver, and whose driver is assigned
\* to no other post.
ValidAssignmentReply ==
    LET c == reply.call
    IN  /\ c.op = "create_assignment"
        /\ c.sender = c.driver_id \/ reply.oracle = "true"
        /\ c.receiver_id \in ids(RECEIVERS)
        /\ c.surplus_post_id \in ids(SURPLUS_POSTS)
        /\ c.driver_id \in ids(DRIVERS)
        /\ \A i \in DOMAIN ASSIGNMENTS :
                ASSIGNMENTS[i].driver_id = c.driver_id
                    => ASSIGNMENTS[i].surplus_post_id = c.surplus_post_id

\* C1: of the valid create_assignment calls for one surplus post, run
\* concurrently or not, the registry holds exactly one Assignment for the
\* post once any of them has ended; the call whose Assignment it is returned
\* it, and every other one failed with "The surplus post is already
\* assigned.".
C1_OneOfTwoAssigns ==
    ValidAssignmentReply =>
        LET c == reply.call
            mine == {i \in AssignmentsFor(c.surplus_post_id) :
                        ASSIGNMENTS[i].id = reply.id}
        IN  /\ Cardinality(AssignmentsFor(c.surplus_post_id)) = 1
            /\ reply.result = IF mine # {} THEN "Ok"
                              ELSE "The surplus post is already assigned."
            /\ mine # {} => \A i \in mine : ASSIGNMENTS[i].driver_id = c.driver_id

\* A valid create_assignment waited for the governance answer while another
\* driver's call for the same post stored its Assignment, and was refused.
C1_Witness ==
    /\ ValidAssignmentReply
    /\ reply.oracle = "true"
    /\ reply.result = "The surplus post is already assigned."
    /\ \E i \in AssignmentsFor(reply.call.surplus_post_id) :
            /\ i > reply.seen
            /\ ASSIGNMENTS[i].driver_id # reply.call.driver_id

\* C2: no two Assignments of the registry have the same surplus_post_id.
C2_OneAssignmentPerPost ==
    \A i, j \in DOMAIN ASSIGNMENTS :
        i # j => ASSIGNMENTS[i].surplus_post_id # ASSIGNMENTS[j].surplus_post_id

\* Two Assignments are stored and a call still waits for the oracle.
C2_Witness ==
    /\ Len(ASSIGNMENTS) = 2
    /\ \E e \in BagToSet(inflight) : e.op = "create_assignment"

\* An Assignment is open while its post has no delivery record.
Open(assignments, records, i) ==
    \A k \in DOMAIN records :
        records[k].surplus_post_id # assignments[i].surplus_post_id

NoDriverTwiceOpen(assignments, records) ==
    \A i, j \in DOMAIN assignments :
        (i # j /\ assignments[i].driver_id = assignments[j].driver_id)
            => ~(Open(assignments, records, i) /\ Open(assignments, records, j))

\* C3: no driver id appears in two open Assignments, whether they were
\* stored by create_assignment or by assign_driver_to_surplus_post.
C3_DriverOpenOnce ==
    /\ NoDriverTwiceOpen(ASSIGNMENTS, SURPLUS_RECORDS)
    /\ NoDriverTwiceOpen(ASSIGNMENTS_b, SURPLUS_RECORDS_b)

\* C4: a delivery record is stored for a post only after an Assignment for
\* that post was stored, and no post has two delivery records.
C4_RecordNeedsAssignment ==
    /\ \A k \in DOMAIN SURPLUS_RECORDS :
            /\ \E i \in AssignmentsFor(SURPLUS_RECORDS[k].surplus_post_id) :
                    ASSIGNMENTS[i].id < SURPLUS_RECORDS[k].id
            /\ \A m \in DOMAIN SURPLUS_RECORDS :
                    m # k => SURPLUS_RECORDS[m].surplus_post_id
                                # SURPLUS_RECORDS[k].surplus_post_id
    /\ (reply.call.op = "create_surplus_record" /\ reply.result = "Ok")
            => /\ AssignmentsFor(reply.call.surplus_post_id) # {}
               /\ \E k \in DOMAIN SURPLUS_RECORDS : SURPLUS_RECORDS[k].id = reply.id

\* An authorized create_surplus_record for a stored post that has no
\* Assignment, by a stored driver, was refused.
C4_Witness ==
    LET c == reply.call
    IN  /\ c.op = "create_surplus_record"
        /\ c.sender = c.driver_id \/ reply.oracle = "true"
        /\ c.surplus_post_id \in ids(SURPLUS_POSTS)
        /\ c.driver_id \in ids(DRIVERS)
        /\ AssignmentsFor(c.surplus_post_id) = {}
        /\ reply.result = "The provided IDs are invalid."

\* C5: once create_assignment(receiver, post, driver) has succeeded, an
\* authorized create_surplus_record(post, driver, rating) for a post with
\* no earlier delivery record succeeds and stores the record.
C5_RecordAfterAssignment ==
    LET c == reply.call
    IN  (/\ c.op = "create_surplus_record"
         /\ c.sender = c.driver_id \/ reply.oracle = "true"
         /\ \E i \in AssignmentsFor(c.surplus_post_id) :
                ASSIGNMENTS[i].driver_id = c.driver_id
         /\ \A k \in DOMAIN SURPLUS_RECORDS :
                SURPLUS_RECORDS[k].surplus_post_id = c.surplus_post_id
                    => SURPLUS_RECORDS[k].id = reply.id)
        => /\ reply.result = "Ok"
           /\ \E k \in DOMAIN SURPLUS_RECORDS : SURPLUS_RECORDS[k].id = reply.id

\* C6: a post's assigned flag is true exactly when an Assignment for the
\* post has been stored.
C6_AssignedFlag ==
    \A p \in DOMAIN SURPLUS_POSTS :
        SURPLUS_POSTS[p].assigned <=> AssignmentsFor(SURPLUS_POSTS[p].id) # {}

stored_ids ==
    ids(DONORS) \cup ids(RECEIVERS) \cup ids(DRIVERS) \cup ids(SURPLUS_POSTS)
        \cup ids(ASSIGNMENTS) \cup ids(SURPLUS_RECORDS)

Increasing(registry) ==
    \A i, j \in DOMAIN registry : i < j => registry[i].id < registry[j].id

\* C7: no id is stored twice in the six registries together, the ids issued
\* are 1, 2, ... in the order of creation (the entity created last has the
\* largest id), and a registry lists its entities by increasing id.
C7_IdsIncrease ==
    /\ Cardinality(stored_ids)
            = Len(DONORS) + Len(RECEIVERS) + Len(DRIVERS) + Len(SURPLUS_POSTS)
                + Len(ASSIGNMENTS) + Len(SURPLUS_RECORDS)
    /\ stored_ids = 1..ID_COUNTER
    /\ Increasing(DONORS) /\ Increasing(RECEIVERS) /\ Increasing(DRIVERS)
    /\ Increasing(SURPLUS_POSTS) /\ Increasing(ASSIGNMENTS)
    /\ Increasing(SURPLUS_RECORDS)
    /\ reply.result = "Ok" => reply.id = ID_COUNTER

\* A donor got id 1 and its surplus post, an entity of another kind, id 2.
C7_Witness ==
    /\ ids(DONORS) = {1}
    /\ ids(SURPLUS_POSTS) = {2}
    /\ reply.id = 2

\* C8: a step that ends a create_* call with an error leaves the six
\* registries and the id counter as they were.
C8_ErrorsChangeNothing ==
    [][reply'.result \notin {"Ok", "none"} => store' = store]_vars

\* A create_* call on a store that holds entities ended with an error other
\* than Unauthorized.
C8_Witness ==
    /\ reply.result \notin {"Ok", "none", "Unauthorized"}
    /\ ID_COUNTER > 0

\* C9: a step that ends create_donor_profile, create_receiver_profile or
\* create_driver_profile after the oracle answered false, or after the call
\* to it failed, returns Unauthorized and stores nothing; the oracle is
\* always asked.
C9_FailClosed ==
    [][reply'.call.op \in ProfileOps =>
            /\ reply'.oracle \in Responses
            /\ reply'.oracle # "true" =>
                    (reply'.result = "Unauthorized" /\ store' = store)]_vars

\* A create_donor_profile whose arguments pass every check was refused as
\* Unauthorized because the call to the oracle failed.
C9_Witness ==
    /\ reply.call.op = "create_donor_profile"
    /\ reply.oracle = "reject"
    /\ create_profile_check(DONORS, reply.call, "true") = "Ok"
    /\ reply.result = "Unauthorized"

\* The id a call acts for: the donor of a post, the driver of an assignment
\* or of a delivery record.
Subject(c) == IF c.op = "create_surplus_post" THEN c.donor_id ELSE c.driver_id

\* C10: create_surplus_post, create_assignment and create_surplus_record
\* called by their own donor_id or driver_id do not ask the oracle and are
\* never Unauthorized; called by anyone else they ask it and are
\* Unauthorized exactly when it does not approve.
C10_AsymmetricAuthorization ==
    LET c == reply.call
    IN  c.op \in {"create_surplus_post", "create_assignment", "create_surplus_record"}
            => IF c.sender = Subject(c)
               THEN reply.oracle = "none" /\ reply.result # "Unauthorized"
               ELSE /\ reply.oracle \in Responses
                    /\ reply.result = "Unauthorized" <=> reply.oracle # "true"

\* A donor stored a surplus post of its own, no oracle asked.
C10_Witness ==
    /\ reply.call.op = "create_surplus_post"
    /\ reply.call.sender = reply.call.donor_id
    /\ reply.oracle = "none"
    /\ reply.result = "Ok"

UniqueEmails(registry) ==
    \A i, j \in DOMAIN registry : i # j => registry[i].email # registry[j].email

\* C12: no two donors, no two receivers and no two drivers have the same
\* email, whatever the order in which concurrent creates resume.
C12_UniqueEmailPerRegistry ==
    UniqueEmails(DONORS) /\ UniqueEmails(RECEIVERS) /\ UniqueEmails(DRIVERS)

\* A create_donor_profile approved by the oracle was refused because a donor
\* with its email is stored, while another create_donor_profile still waits.
C12_Witness ==
    /\ reply.call.op = "create_donor_profile"
    /\ reply.result = "Email already exists"
    /\ \E i \in DOMAIN DONORS : DONORS[i].email = reply.call.email
    /\ \E e \in BagToSet(inflight) : e.op = "create_donor_profile"

\* The registry a profile handler reads and writes.
OwnRegistry(op) ==
    IF op = "create_donor_profile" THEN DONORS
    ELSE IF op = "create_receiver_profile" THEN RECEIVERS
    ELSE DRIVERS

\* C13: an approved create_receiver_profile or create_driver_profile with
\* valid fields whose email no other profile of its own registry has
\* succeeds, also when a donor has that email.
C13_EmailScopedToRegistry ==
    LET c == reply.call
        own == OwnRegistry(c.op)
    IN  (/\ c.op \in {"create_receiver_profile", "create_driver_profile"}
         /\ reply.oracle = "true"
         /\ ~is_empty(c.name) /\ ~is_empty(c.phone_number)
         /\ ~is_empty(c.email) /\ ~is_empty(c.address)
         /\ contains(c.email, "@")
         /\ len(c.phone_number) = 10 /\ all_numeric(c.phone_number)
         /\ \A i \in DOMAIN own : own[i].email = c.email => own[i].id = reply.id)
        => /\ reply.result = "Ok"
           /\ \E i \in DOMAIN own : own[i].id = reply.id /\ own[i].email = c.email

\* A receiver was stored with the email of a stored donor.
C13_Witness ==
    /\ reply.call.op = "create_receiver_profile"
    /\ reply.result = "Ok"
    /\ \E i \in DOMAIN DONORS : DONORS[i].email = reply.call.email
    /\ \E i \in DOMAIN RECEIVERS : RECEIVERS[i].id = reply.id

\* C14: every Assignment's receiver_id, surplus_post_id and driver_id are
\* the ids of a stored receiver, surplus post and driver.
C14_AssignmentRefersToStored ==
    \A i \in DOMAIN ASSIGNMENTS :
        /\ ASSIGNMENTS[i].receiver_id \in ids(RECEIVERS)
        /\ ASSIGNMENTS[i].surplus_post_id \in ids(SURPLUS_POSTS)
        /\ ASSIGNMENTS[i].driver_id \in ids(DRIVERS)

\* With an Assignment stored, an authorized create_assignment naming an id
\* that no entity has was refused.
C14_Witness ==
    /\ ASSIGNMENTS # <<>>
    /\ reply.call.op = "create_assignment"
    /\ reply.result = "The provided IDs are invalid."

\* The stored Assignments with the (receiver_id, surplus_post_id, driver_id)
\* of a call.
SameRequest(assignments, c) ==
    {i \in DOMAIN assignments :
        /\ assignments[i].receiver_id = c.receiver_id
        /\ assignments[i].surplus_post_id = c.surplus_post_id
        /\ assignments[i].driver_id = c.driver_id}

\* C15: no step changes or removes a stored Assignment, and an authorized
\* create_assignment whose (receiver_id, surplus_post_id, driver_id) are
\* those of an Assignment stored before it ends fails with "The surplus
\* post is already assigned." and stores nothing.
C15_RepeatedAssignmentRefused ==
    [][/\ \A i \in DOMAIN ASSIGNMENTS :
                i \in DOMAIN ASSIGNMENTS' /\ ASSIGNMENTS'[i] = ASSIGNMENTS[i]
       /\ (/\ reply'.call.op = "create_assignment"
           /\ reply'.call.sender = reply'.call.driver_id \/ reply'.oracle = "true"
           /\ SameRequest(ASSIGNMENTS, reply'.call) # {})
            => /\ reply'.result = "The surplus post is already assigned."
               /\ store' = store]_vars

\* create_assignment was called again by the driver of a stored Assignment
\* with the same arguments, and refused; the Assignment is still stored.
C15_Witness ==
    /\ reply.call.op = "create_assignment"
    /\ reply.call.sender = reply.call.driver_id
    /\ reply.result = "The surplus post is already assigned."
    /\ SameRequest(ASSIGNMENTS, reply.call) # {}

OneRecordPerPost(records) ==
    \A k, m \in DOMAIN records :
        k # m => records[k].surplus_post_id # records[m].surplus_post_id

\* C16: there is at most one delivery record per surplus post id, whether
\* the records were stored by create_surplus_record or by
\* record_surplus_delivery.
C16_OneDeliveryPerPost ==
    OneRecordPerPost(SURPLUS_RECORDS) /\ OneRecordPerPost(SURPLUS_RECORDS_b)

\* C18: once record_surplus_delivery has stored a record for a post, no
\* Assignment is stored for that post afterwards (every Assignment of the
\* post has a smaller id than the record) and no further record is stored
\* for it.
C18_DeliveredIsTerminal ==
    \A k \in DOMAIN SURPLUS_RECORDS_b :
        /\ \A i \in DOMAIN ASSIGNMENTS_b :
                ASSIGNMENTS_b[i].surplus_post_id = SURPLUS_RECORDS_b[k].surplus_post_id
                    => ASSIGNMENTS_b[i].id < SURPLUS_RECORDS_b[k].id
        /\ \A m \in DOMAIN SURPLUS_RECORDS_b :
                m > k => SURPLUS_RECORDS_b[m].surplus_post_id
                            # SURPLUS_RECORDS_b[k].surplus_post_id

\* C20: in every state between two messages, which is what a reader of the
\* surplus-post registry can see, a post has assigned = true exactly when
\* its assigned_to is Some(driver), and that driver is the driver of the
\* post's latest Assignment.
C20_NoTornPost ==
    \A p \in DOMAIN SURPLUS_POSTS_b :
        LET post == SURPLUS_POSTS_b[p]
            of_post == {i \in DOMAIN ASSIGNMENTS_b :
                            ASSIGNMENTS_b[i].surplus_post_id = post.id}
        IN  /\ post.assigned <=> post.assigned_to # <<>>
            /\ post.assigned =>
                    \E i \in of_post :
                        /\ \A j \in of_post : j <= i
                        /\ post.assigned_to = <<ASSIGNMENTS_b[i].driver_id>>

\* One post is assigned to a driver and another, delivered, is free again.
C20_Witness ==
    /\ \E p \in DOMAIN SURPLUS_POSTS_b :
            SURPLUS_POSTS_b[p].assigned /\ SURPLUS_POSTS_b[p].assigned_to # <<>>
    /\ \E p \in DOMAIN SURPLUS_POSTS_b :
            /\ ~SURPLUS_POSTS_b[p].assigned
            /\ SURPLUS_POSTS_b[p].assigned_to = <<>>
            /\ \E k \in DOMAIN SURPLUS_RECORDS_b :
                    SURPLUS_RECORDS_b[k].surplus_post_id = SURPLUS_POSTS_b[p].id

C11_UnauthorizedChangesNothing ==
    [][(/\ reply_b'.call.op \in {"add_surplus_post", "assign_driver_to_surplus_post_c",
                                 "record_surplus_delivery_c"}
        /\ ~is_governance_accepted_b(reply_b'.call.caller))
            => registries_b' = registries_b]_vars

\* C19: no call waits for a write lock whose read guard is held by a call
\* that is itself suspended, so every suspended call is granted its lock
\* once the running calls return.
C19_NoCallWaitsForever ==
    \A b \in BagToSet(blocked) :
        ~(\E h \in BagToSet(blocked) : b.waits \in h.holds)

\* C21: the n-th successful create, counted over all kinds, gets id n: the
\* ids stored are 1 to the number of entities stored, whatever calls failed
\* in between, and the delivery that follows an Assignment (an authorized
\* create_surplus_record for the Assignment's post and driver, the post not
\* delivered before) is the next successful create and gets the next id.
C21_NthCreateGetsIdN ==
    LET c == reply.call
        n == Len(DONORS) + Len(RECEIVERS) + Len(DRIVERS) + Len(SURPLUS_POSTS)
                + Len(ASSIGNMENTS) + Len(SURPLUS_RECORDS)
    IN  /\ stored_ids = 1..n
        /\ reply.result = "Ok" => reply.id = n
        /\ (/\ c.op = "create_surplus_record"
            /\ c.sender = c.driver_id \/ reply.oracle = "true"
            /\ \E i \in AssignmentsFor(c.surplus_post_id) :
                    ASSIGNMENTS[i].driver_id = c.driver_id
            /\ \A k \in DOMAIN SURPLUS_RECORDS :
                    SURPLUS_RECORDS[k].surplus_post_id = c.surplus_post_id
                        => SURPLUS_RECORDS[k].id = reply.id)
            => (reply.result = "Ok" /\ reply.id = n)

QueryOps ==
    {"get_all_donors", "get_all_receivers", "get_all_drivers",
     "get_all_surplus_posts", "get_all_assignments", "get_all_surplus_records"}

Queried(op) ==
    CASE op = "get_all_donors" -> DONORS
      [] op = "get_all_receivers" -> RECEIVERS
      [] op = "get_all_drivers" -> DRIVERS
      [] op = "get_all_surplus_posts" -> SURPLUS_POSTS
      [] op = "get_all_assignments" -> ASSIGNMENTS
      [] op = "get_all_surplus_records" -> SURPLUS_RECORDS

\* C22: each of the six get_all_* queries succeeds, returns every entity of
\* its registry in the order of insertion, and leaves the six registries and
\* the id counter as they were.
C22_QueriesReadOnly ==
    [][reply'.call.op \in QueryOps /\ reply.call.op = "none"
            => /\ reply'.result = "Ok"
               /\ reply'.value = Queried(reply'.call.op)
               /\ store' = store]_vars

C22_Witness ==
    /\ reply.call.op = "get_all_assignments"
    /\ Len(reply.value) = 2
    /\ reply.value[1].id < reply.value[2].id
    /\ reply.value = ASSIGNMENTS

AppendOnly(registry_before, registry_after) ==
    /\ Len(registry_after) >= Len(registry_before)
    /\ \A i \in DOMAIN registry_before : registry_after[i] = registry_before[i]

\* C23: a stored profile never changes and never moves: after every step
\* each profile registry holds, position by position, the profiles it held
\* before, with the same fields.
C23_ProfilesImmutable ==
    [][/\ AppendOnly(DONORS, DONORS')
       /\ AppendOnly(RECEIVERS, RECEIVERS')
       /\ AppendOnly(DRIVERS, DRIVERS')]_vars

C23_Witness ==
    /\ Len(DONORS) = 2
    /\ DONORS[1].id = 1
    /\ DONORS[2].id = 2
    /\ reply.call.op = "create_donor_profile"
    /\ reply.result = "Ok"

WellFormed(p) ==
    /\ p.name # <<>>
    /\ p.phone_number # <<>>
    /\ p.email # <<>>
    /\ p.address # <<>>
    /\ contains(p.email, "@")
    /\ Len(p.phone_number) = 10
    /\ all_numeric(p.phone_number)

\* C24: every stored donor, receiver and driver profile has a non-empty
\* name, phone number, email and address, an email with an '@' in it, and a
\* phone number of exactly ten characters, all of them numeric.
C24_StoredProfilesWellFormed ==
    /\ \A i \in DOMAIN DONORS : WellFormed(DONORS[i])
    /\ \A i \in DOMAIN RECEIVERS : WellFormed(RECEIVERS[i])
    /\ \A i \in DOMAIN DRIVERS : WellFormed(DRIVERS[i])

\* C25: create_donor_profile, create_receiver_profile and
\* create_driver_profile return the error of the first check that fails, in
\* the order authorization, required fields, email uniqueness, email format,
\* phone number format.
C25_FirstFailingCheck ==
    LET c == reply.call
        own == OwnRegistry(c.op)
        unauthorized == reply.oracle # "true"
        missing == c.name = <<>> \/ c.phone_number = <<>> \/ c.email = <<>>
                      \/ c.address = <<>>
        duplicate == \E i \in DOMAIN own :
                        own[i].email = c.email /\ own[i].id # reply.id
        bad_email == ~contains(c.email, "@")
        bad_phone == len(c.phone_number) # 10 \/ ~all_numeric(c.phone_number)
    IN  c.op \in ProfileOps =>
            reply.result =
                IF unauthorized THEN "Unauthorized"
                ELSE IF missing THEN "All fields are required"
                ELSE IF duplicate THEN "Email already exists"
                ELSE IF bad_email THEN "Invalid email format"
                ELSE IF bad_phone THEN "Invalid phone number format"
                ELSE "Ok"

C25_Witness ==
    /\ reply.call.op = "create_receiver_profile"
    /\ reply.oracle = "true"
    /\ reply.call.name = <<>>
    /\ reply.call.phone_number = Short
    /\ reply.call.email = no_at
    /\ reply.result = "All fields are required"

\* C26: create_surplus_post stores a post only when quantity_kg and
\* best_before_date are above zero and donor_id is the id of a stored donor;
\* the post it stores is not assigned; a call that breaks one of the three
\* conditions stores nothing.
C26_PostStoredOnlyIfValid ==
    [][LET c == reply'.call
           valid == /\ c.quantity_kg > 0
                    /\ c.best_before_date > 0
                    /\ c.donor_id \in ids(DONORS)
       IN  /\ SURPLUS_POSTS' # SURPLUS_POSTS
                => /\ c.op = "create_surplus_post"
                   /\ valid
                   /\ Len(SURPLUS_POSTS') = Len(SURPLUS_POSTS) + 1
                   /\ SURPLUS_POSTS'[Len(SURPLUS_POSTS')].donor_id = c.donor_id
                   /\ ~SURPLUS_POSTS'[Len(SURPLUS_POSTS')].assigned
           /\ (c.op = "create_surplus_post" /\ reply.call.op = "none" /\ ~valid)
                => (store' = store /\ reply'.result # "Ok")]_vars

C26_Witness ==
    /\ reply.call.op = "create_surplus_post"
    /\ reply.result = "Ok"
    /\ Len(SURPLUS_POSTS) = 1
    /\ SURPLUS_POSTS[1].donor_id \in ids(DONORS)
    /\ ~SURPLUS_POSTS[1].assigned

\* C29: an authorized create_assignment with three non-zero ids gets the
\* invalid-ids error when one of them is the id of no stored entity, whatever
\* is assigned; otherwise the post-already-assigned error when the post has
\* an Assignment, also when the driver has one too; the
\* driver-already-assigned error only when the post has none.
C29_AssignmentErrorOrder ==
    LET c == reply.call
        earlier == {i \in DOMAIN ASSIGNMENTS : ASSIGNMENTS[i].id # reply.id}
        invalid == \/ c.receiver_id \notin ids(RECEIVERS)
                   \/ c.surplus_post_id \notin ids(SURPLUS_POSTS)
                   \/ c.driver_id \notin ids(DRIVERS)
        post_taken == \E i \in earlier :
                            ASSIGNMENTS[i].surplus_post_id = c.surplus_post_id
        driver_busy == \E i \in earlier : ASSIGNMENTS[i].driver_id = c.driver_id
    IN  (/\ c.op = "create_assignment"
         /\ c.sender = c.driver_id \/ reply.oracle = "true"
         /\ c.receiver_id # 0 /\ c.surplus_post_id # 0 /\ c.driver_id # 0)
            => reply.result =
                    IF invalid THEN "The provided IDs are invalid."
                    ELSE IF post_taken THEN "The surplus post is already assigned."
                    ELSE IF driver_busy
                        THEN "The driver is already assigned to another post."
                    ELSE "Ok"

C29_Witness ==
    /\ reply.call.op = "create_assignment"
    /\ reply.result = "The surplus post is already assigned."
    /\ \E i \in DOMAIN ASSIGNMENTS :
            ASSIGNMENTS[i].surplus_post_id = reply.call.surplus_post_id
    /\ \E i \in DOMAIN ASSIGNMENTS : ASSIGNMENTS[i].driver_id = reply.call.driver_id

\* C30: a delivery record for a surplus post and a driver is stored only if
\* an Assignment of that post names that driver (revision B's
\* record_surplus_delivery).
C30_RecordNamesAssignedDriver ==
    \A k \in DOMAIN SURPLUS_RECORDS_b :
        \E i \in DOMAIN ASSIGNMENTS_b :
            /\ ASSIGNMENTS_b[i].surplus_post_id = SURPLUS_RECORDS_b[k].surplus_post_id
            /\ ASSIGNMENTS_b[i].driver_id = SURPLUS_RECORDS_b[k].driver_id

\* C27: with a receiver and a driver registered and a food request added,
\* assign_driver_to_food_request for that driver and request runs to its
\* reply, which is Ok, and leaves the request assigned to the driver; the
\* record_food_delivery that follows runs to its reply, which is Ok, and
\* leaves one food record and the request unassigned.  No call of the two
\* handlers is left waiting.
C27_FoodRequestFlow ==
    LET c == reply_b.call
    IN  /\ \A b \in BagToSet(blocked) :
                b.op \notin {"assign_driver_to_food_request", "record_food_delivery"}
        /\ (c.op = "assign_driver_to_food_request" /\ reply_b.result = "Ok")
                => \E i \in DOMAIN FOOD_REQUESTS :
                        /\ FOOD_REQUESTS[i].id = c.food_request_id
                        /\ FOOD_REQUESTS[i].assigned
                        /\ FOOD_REQUESTS[i].assigned_to = <<c.driver_id>>
        /\ (c.op = "record_food_delivery" /\ reply_b.result = "Ok")
                => /\ \E k \in DOMAIN FOOD_RECORDS :
                        /\ FOOD_RECORDS[k].food_request_id = c.food_request_id
                        /\ FOOD_RECORDS[k].driver_id = c.driver_id
                   /\ \A i \in DOMAIN FOOD_REQUESTS :
                        FOOD_REQUESTS[i].id = c.food_request_id
                            => ~FOOD_REQUESTS[i].assigned

\* C28: delete_message for the id of a stored message runs to its reply,
\* which is Ok, and the message is no longer stored; delete_message for an
\* id no message has is answered with an error.  No delete_message call is
\* left waiting.
C28_DeleteRemovesMessage ==
    LET c == reply_b.call
    IN  /\ \A b \in BagToSet(blocked) : b.op # "delete_message"
        /\ c.op = "delete_message"
                => IF reply_b.result = "Ok"
                   THEN c.message_id \notin ids(MESSAGES)
                   ELSE reply_b.result = "Message does not exist"

\* C31: in every state between two messages a surplus post has assigned =
\* true only if the assignments registry holds an Assignment for that post
\* whose driver_id is the post's assigned_to.
C31_FlagHasAssignmentRow ==
    \A p \in DOMAIN SURPLUS_POSTS_b :
        SURPLUS_POSTS_b[p].assigned
            => \E i \in DOMAIN ASSIGNMENTS_b :
                    /\ ASSIGNMENTS_b[i].surplus_post_id = SURPLUS_POSTS_b[p].id
                    /\ <<ASSIGNMENTS_b[i].driver_id>> = SURPLUS_POSTS_b[p].assigned_to

\* A post delivered by one driver is assigned to another: the registry holds
\* two Assignments for it and the flag goes with the later one.
C31_Witness ==
    \E p \in DOMAIN SURPLUS_POSTS_b :
        /\ SURPLUS_POSTS_b[p].assigned
        /\ Len(ASSIGNMENTS_b) = 2
        /\ ASSIGNMENTS_b[1].surplus_post_id = SURPLUS_POSTS_b[p].id
        /\ ASSIGNMENTS_b[2].surplus_post_id = SURPLUS_POSTS_b[p].id
        /\ ASSIGNMENTS_b[1].driver_id # ASSIGNMENTS_b[2].driver_id
        /\ SURPLUS_POSTS_b[p].assigned_to = <<ASSIGNMENTS_b[2].driver_id>>

\* C32: an Assignment stored by create_assignment is never changed and never
\* removed: after every step, create_surplus_record's included, the
\* assignments registry holds, position by position, the Assignments it held
\* before with the same fields, and each has status "Pending".
C32_AssignmentsWriteOnce ==
    [][/\ AppendOnly(ASSIGNMENTS, ASSIGNMENTS')
       /\ \A i \in DOMAIN ASSIGNMENTS' : ASSIGNMENTS'[i].status = "Pending"]_vars

\* Two Assignments are stored and create_surplus_record has been called by
\* the driver of the first for its post.
C32_Witness ==
    /\ Len(ASSIGNMENTS) = 2
    /\ ASSIGNMENTS[1].id < ASSIGNMENTS[2].id
    /\ ASSIGNMENTS[1].status = "Pending"
    /\ ASSIGNMENTS[1].surplus_post_id \in delivery_calls
    /\ reply.call.op = "create_surplus_record"
    /\ reply.call.surplus_post_id = ASSIGNMENTS[1].surplus_post_id
    /\ reply.call.driver_id = ASSIGNMENTS[1].driver_id

=============================================================================
